---- MODULE Spec2Model ----
(***************************************************************************)
(* A model of src/server.js: the socket.io chat hub with its session map,  *)
(* voice rooms, friend graph, private threads, global channel log, the     *)
(* hourly retention sweep and the fire-and-forget writes of its two JSON   *)
(* documents.  One action per inbound event handler, one for the timer,    *)
(* one for the clock and one per asynchronous write completion.            *)
(***************************************************************************)
EXTENDS Integers, Sequences, FiniteSets, TLC

(* ------------------------------------------------------------------ *)
(* Bounds of the model and the input sets the handlers draw from.     *)
(* ------------------------------------------------------------------ *)

\* socket.id values the transport hands out; an id is never handed out twice
Ids == {"s1", "s2", "s3"}
\* a falsy targetId / fromSocketId (undefined, null, "")
NoId == "none"
\* display names clients send
Names == {"alice", "bob"}
\* the display name each client joins with: two of them share one
NameOf == [s1 |-> "alice", s2 |-> "bob", s3 |-> "alice"]
\* avatar references clients send; NoAvatar stands for null
NoAvatar == "null"
Avatars == {NoAvatar}
\* voice room ids clients send
Rooms == {"Lounge", "Music"}
\* message bodies clients send
Texts == {"hi"}
\* Bounds on what the environment does in a run.  A specification stops
\* the clock after MaxTicks steps of ClockStep milliseconds, stops posting to
\* a log that holds MaxLog messages or to a thread that holds MaxThread,
\* stops sending friend requests once MaxNotes notifications are queued, and
\* keeps at most MaxInFlight writes per file in flight.
MaxTicks == 2
MaxLog == 2
MaxThread == 1
MaxNotes == 2
MaxInFlight == 2
\* the private-thread component is explored with fewer friend requests
MaxThreadNotes == 1

\* Date.now() - (7 * 24 * 60 * 60 * 1000)
SevenDays == 7 * 24 * 60 * 60 * 1000
\* the clock's granularity in the model: half a retention window, so that a
\* message can be younger than, exactly as old as, and older than the window
ClockStep == SevenDays \div 2

VARIABLES
    sockets,          \* transport: id -> "new" | "open" | "closed"
    ioRooms,          \* socket.io adapter: room name -> set of socket ids
    users,            \* let users = {}           (insertion-ordered)
    voiceState,       \* let voiceState = {}      (insertion-ordered)
    messageHistory,   \* messageHistory['global']
    privateMessages,  \* let privateMessages = {}
    friends,          \* let friends = {}
    friendRequests,   \* let friendRequests = {}
    notifications,    \* let notifications = {}
    userProfiles,     \* let userProfiles = {}
    now,              \* Date.now()
    crashed,          \* an uncaught exception ended the process
    pendingP, diskP,  \* writes in flight to / content of persistent_data.json
    pendingH, diskH,  \* writes in flight to / content of chat_data.json
    issuedP, issuedH, \* the document handed to the most recent fs.writeFile
    out,              \* the events the last handler emitted, in order
    last              \* the name of the last event handled

vars == <<sockets, ioRooms, users, voiceState, messageHistory, privateMessages,
          friends, friendRequests, notifications, userProfiles, now, crashed,
          pendingP, diskP, pendingH, diskH, issuedP, issuedH, out, last>>

(* ------------------------------------------------------------------ *)
(* JavaScript objects and arrays.                                      *)
(* ------------------------------------------------------------------ *)

\* {} : an object with no keys
EmptyObj == [k \in {} |-> k]

\* obj[k] = v on an object modelled as a function
ObjSet(obj, k, v) == [x \in (DOMAIN obj) \cup {k} |-> IF x = k THEN v ELSE obj[x]]

\* obj[k] || []
ArrOf(obj, k) == IF k \in DOMAIN obj THEN obj[k] ELSE <<>>

\* Array.prototype.includes
Includes(arr, x) == \E i \in 1..Len(arr) : arr[i] = x

\* arr.filter(id => id !== x)
Without(arr, x) == SelectSeq(arr, LAMBDA y : y # x)

\* the set of an array's elements
Elems(arr) == {arr[i] : i \in 1..Len(arr)}

\* An insertion-ordered object keyed by socket id is a sequence of entries
\* with an id field: Object.keys() is the sequence of their ids.
HasKey(obj, id) == \E i \in 1..Len(obj) : obj[i].id = id
Entry(obj, id) == obj[CHOOSE i \in 1..Len(obj) : obj[i].id = id]
PutEntry(obj, e) ==
    IF HasKey(obj, e.id)
    THEN [obj EXCEPT ![CHOOSE i \in 1..Len(obj) : obj[i].id = e.id] = e]
    ELSE Append(obj, e)
\* the delete left out
DelNothing(obj, id) == obj

\* delete obj[id]
DelEntry(obj, id) == SelectSeq(obj, LAMBDA e : e.id # id)

\* the map with online: true for every entry
RECURSIVE MapIdsAllOnline(_, _, _)
MapIdsAllOnline(arr, u, up) ==
    IF arr = <<>> THEN <<>>
    ELSE <<[id |-> Head(arr),
            name |-> IF HasKey(u, Head(arr)) THEN Entry(u, Head(arr)).name
                     ELSE IF Head(arr) \in DOMAIN up THEN up[Head(arr)].name
                     ELSE "Unknown",
            avatar |-> IF HasKey(u, Head(arr)) /\ Entry(u, Head(arr)).avatar # NoAvatar
                       THEN Entry(u, Head(arr)).avatar
                       ELSE IF Head(arr) \in DOMAIN up THEN up[Head(arr)].avatar
                       ELSE NoAvatar,
            online |-> TRUE]>> \o MapIdsAllOnline(Tail(arr), u, up)

\* arr.map(f) for a sequence
RECURSIVE MapIds(_, _, _)
MapIds(arr, u, up) ==
    IF arr = <<>> THEN <<>>
    ELSE <<[id |-> Head(arr),
            name |-> IF HasKey(u, Head(arr)) THEN Entry(u, Head(arr)).name
                     ELSE IF Head(arr) \in DOMAIN up THEN up[Head(arr)].name
                     ELSE "Unknown",
            avatar |-> IF HasKey(u, Head(arr)) /\ Entry(u, Head(arr)).avatar # NoAvatar
                       THEN Entry(u, Head(arr)).avatar
                       ELSE IF Head(arr) \in DOMAIN up THEN up[Head(arr)].avatar
                       ELSE NoAvatar,
            online |-> HasKey(u, Head(arr))]>> \o MapIds(Tail(arr), u, up)

(* ------------------------------------------------------------------ *)
(* Transport: who receives an emit.                                    *)
(* ------------------------------------------------------------------ *)

Open(s) == {id \in Ids : s[id] = "open"}

\* socket.emit(ev, arg)
ToSelf(id, ev, arg) == [to |-> {id}, ev |-> ev, arg |-> arg]
\* io.to(id).emit(ev, arg): the room named after a socket id holds that socket
\* while it is connected, and nobody otherwise
ToSocket(s, id, ev, arg) == [to |-> Open(s) \cap {id}, ev |-> ev, arg |-> arg]
\* io.to(room).emit(ev, arg)
ToRoom(rooms, room, ev, arg) == [to |-> rooms[room], ev |-> ev, arg |-> arg]
\* io.emit(ev, arg)
ToAll(s, ev, arg) == [to |-> Open(s), ev |-> ev, arg |-> arg]

(* ------------------------------------------------------------------ *)
(* Voice helpers.                                                      *)
(* ------------------------------------------------------------------ *)

\* Object.keys(voiceState).filter(id => voiceState[id] === roomId)
RECURSIVE KeysOf(_)
KeysOf(obj) == IF obj = <<>> THEN <<>> ELSE <<Head(obj).id>> \o KeysOf(Tail(obj))

RoomKeys(vs, roomId) == KeysOf(SelectSeq(vs, LAMBDA e : e.room = roomId))

\* getVoiceUsers(roomId)
RECURSIVE VoiceUsersOf(_, _)
VoiceUsersOf(ks, u) ==
    IF ks = <<>> THEN <<>>
    ELSE <<[id |-> Head(ks),
            name |-> IF HasKey(u, Head(ks)) THEN Entry(u, Head(ks)).name ELSE "undefined",
            avatar |-> IF HasKey(u, Head(ks)) THEN Entry(u, Head(ks)).avatar ELSE "undefined"]>>
         \o VoiceUsersOf(Tail(ks), u)

getVoiceUsers(vs, u, roomId) == VoiceUsersOf(RoomKeys(vs, roomId), u)

\* getVoiceStateFull(): room -> list of {id, name, avatar}, rooms in the order
\* their first member appears in voiceState; a member without a session is
\* skipped but its room key is still created
RECURSIVE VoiceFull(_, _, _)
VoiceFull(vs, u, state) ==
    IF vs = <<>> THEN state
    ELSE LET e == Head(vs)
             st1 == IF \E i \in 1..Len(state) : state[i].room = e.room
                    THEN state
                    ELSE Append(state, [room |-> e.room, members |-> <<>>])
             at == CHOOSE i \in 1..Len(st1) : st1[i].room = e.room
             st2 == IF HasKey(u, e.id)
                    THEN [st1 EXCEPT ![at].members =
                            Append(@, [id |-> e.id,
                                       name |-> Entry(u, e.id).name,
                                       avatar |-> Entry(u, e.id).avatar])]
                    ELSE st1
         IN  VoiceFull(Tail(vs), u, st2)

getVoiceStateFull(vs, u) == VoiceFull(vs, u, <<>>)

(* ------------------------------------------------------------------ *)
(* Persistence.                                                        *)
(* ------------------------------------------------------------------ *)

\* the object savePersistentData() serialises
PersistentDoc(f, fr, n, pm, up, t) ==
    [friends |-> f, friendRequests |-> fr, notifications |-> n,
     privateMessages |-> pm, userProfiles |-> up, lastSaved |-> t]

\* the object saveHistory() serialises
HistoryDoc(h) == [global |-> h]

\* savePersistentData(): JSON.stringify runs at the call, fs.writeFile is
\* started and not awaited.  Writes of the same text are one element of the
\* set of writes in flight.
savePersistentData(f, fr, n, pm, up) ==
    LET doc == PersistentDoc(f, fr, n, pm, up, now)
    IN  /\ pendingP' = pendingP \cup {doc}
        /\ issuedP' = <<doc>>

\* saveHistory()
saveHistory(h) ==
    /\ pendingH' = pendingH \cup {HistoryDoc(h)}
    /\ issuedH' = <<HistoryDoc(h)>>

NoSaveP == UNCHANGED <<pendingP, issuedP>>
NoSaveH == UNCHANGED <<pendingH, issuedH>>

(* ------------------------------------------------------------------ *)
(* Initial state: a fresh start, neither JSON document exists.         *)
(* ------------------------------------------------------------------ *)

Init ==
    /\ sockets = [id \in Ids |-> "new"]
    /\ ioRooms = [r \in Rooms \cup {"global"} |-> {}]
    /\ users = <<>>
    /\ voiceState = <<>>
    /\ messageHistory = <<>>
    /\ privateMessages = EmptyObj
    /\ friends = EmptyObj
    /\ friendRequests = EmptyObj
    /\ notifications = EmptyObj
    /\ userProfiles = EmptyObj
    /\ now = 0
    /\ crashed = FALSE
    /\ pendingP = {}
    /\ diskP = <<>>
    /\ pendingH = {}
    /\ diskH = <<>>
    /\ issuedP = <<>>
    /\ issuedH = <<>>
    /\ out = <<>>
    /\ last = "start"

\* an inbound event reaches the handlers of a connected socket of a live process
Running(id) == ~crashed /\ sockets[id] = "open"

\* io.on('connection')
Connect(id) ==
    /\ ~crashed
    /\ sockets[id] = "new"
    /\ sockets' = [sockets EXCEPT ![id] = "open"]
    /\ out' = <<>>
    /\ last' = "connection"
    /\ UNCHANGED <<ioRooms, users, voiceState, messageHistory, privateMessages,
                   friends, friendRequests, notifications, userProfiles, now,
                   crashed, pendingP, diskP, pendingH, diskH, issuedP, issuedH>>

\* socket.on('join')
Join(id, name, avatar) ==
    /\ Running(id)
    /\ LET existing == id \in DOMAIN userProfiles
           session == IF existing
                      THEN [id |-> id, name |-> userProfiles[id].name,
                            avatar |-> IF userProfiles[id].avatar # NoAvatar
                                       THEN userProfiles[id].avatar ELSE avatar]
                      ELSE [id |-> id, name |-> name, avatar |-> avatar]
           users1 == PutEntry(users, session)
       IN  /\ users' = users1
           /\ userProfiles' = IF existing THEN userProfiles
                              ELSE ObjSet(userProfiles, id, [name |-> name, avatar |-> avatar])
           /\ ioRooms' = [ioRooms EXCEPT !["global"] = @ \cup {id}]
           /\ out' = << ToSelf(id, "loadHistory", messageHistory),
                        ToSelf(id, "message",
                               [user |-> "System", welcome |-> session.name, type |-> "system"]),
                        ToSelf(id, "friendsUpdate",
                               MapIds(ArrOf(friends, id), users1, userProfiles')),
                        ToSelf(id, "notificationsUpdate", ArrOf(notifications, id)),
                        ToAll(sockets, "voiceUpdate", getVoiceStateFull(voiceState, users1)) >>
    /\ last' = "join"
    /\ UNCHANGED <<sockets, voiceState, messageHistory, privateMessages, friends,
                   friendRequests, notifications, now, crashed,
                   pendingP, diskP, pendingH, diskH, issuedP, issuedH>>

\* socket.on('updateProfile')
UpdateProfile(id, name, avatar) ==
    /\ Running(id)
    /\ last' = "updateProfile"
    /\ IF HasKey(users, id)
       THEN /\ users' = PutEntry(users, [id |-> id, name |-> name, avatar |-> avatar])
            /\ userProfiles' = ObjSet(userProfiles, id, [name |-> name, avatar |-> avatar])
            /\ savePersistentData(friends, friendRequests, notifications,
                                  privateMessages, userProfiles')
            /\ out' = << ToAll(sockets, "voiceUpdate", getVoiceStateFull(voiceState, users')) >>
       ELSE /\ out' = <<>>
            /\ NoSaveP
            /\ UNCHANGED <<users, userProfiles>>
    /\ UNCHANGED <<sockets, ioRooms, voiceState, messageHistory, privateMessages,
                   friends, friendRequests, notifications, now, crashed,
                   diskP, pendingH, diskH, issuedH>>

\* Object.keys(users).find(id => users[id].name === targetName)
FindByName(u, targetName) ==
    LET hits == SelectSeq(u, LAMBDA e : e.name = targetName)
    IN  IF hits = <<>> THEN NoId ELSE Head(hits).id

\* the friend_request notification of sendFriendRequest
FriendRequestNote(sender, t) ==
    [type |-> "friend_request", from |-> sender.id, fromName |-> sender.name,
     fromAvatar |-> sender.avatar, timestamp |-> t]

\* the number of queued notifications, all mailboxes together
RECURSIVE CountNotes(_, _)
CountNotes(n, ids) ==
    IF ids = {} THEN 0
    ELSE LET k == CHOOSE x \in ids : TRUE
         IN  Len(n[k]) + CountNotes(n, ids \ {k})

\* the test without targetSocketId === socket.id
NoTargetOnly(target, id) == target = NoId

\* !targetSocketId || targetSocketId === socket.id
NoTargetOrSelf(target, id) == target = NoId \/ target = id

\* the test left out
AlreadySentNever(list, id) == FALSE

\* friendRequests[targetSocketId].includes(socket.id)
AlreadySent(list, id) == Includes(list, id)

\* socket.on('sendFriendRequest')
SendFriendRequest(id, targetName) ==
    /\ Running(id)
    /\ last' = "sendFriendRequest"
    /\ LET target == FindByName(users, targetName)
       IN  IF ~HasKey(users, id)
           THEN /\ out' = <<>>
                /\ NoSaveP
                /\ UNCHANGED <<friendRequests, notifications>>
           ELSE IF NoTargetOrSelf(target, id)
           THEN /\ out' = << ToSelf(id, "friendRequestError",
                                    "User not found or cannot add yourself") >>
                /\ NoSaveP
                /\ UNCHANGED <<friendRequests, notifications>>
           ELSE LET fr0 == IF target \in DOMAIN friendRequests THEN friendRequests
                           ELSE ObjSet(friendRequests, target, <<>>)
                    n0 == IF target \in DOMAIN notifications THEN notifications
                          ELSE ObjSet(notifications, target, <<>>)
                IN  IF AlreadySent(fr0[target], id)
                    THEN /\ out' = << ToSelf(id, "friendRequestError",
                                             "Friend request already sent") >>
                         /\ friendRequests' = fr0
                         /\ notifications' = n0
                         /\ NoSaveP
                    ELSE /\ friendRequests' = [fr0 EXCEPT ![target] = Append(@, id)]
                         /\ notifications' = [n0 EXCEPT ![target] =
                                Append(@, FriendRequestNote(Entry(users, id), now))]
                         /\ savePersistentData(friends, friendRequests', notifications',
                                               privateMessages, userProfiles)
                         /\ out' = << ToSocket(sockets, target, "notification",
                                         [type |-> "friend_request", from |-> id,
                                          fromName |-> Entry(users, id).name,
                                          fromAvatar |-> Entry(users, id).avatar]),
                                      ToSocket(sockets, target, "notificationsUpdate",
                                         notifications'[target]),
                                      ToSelf(id, "friendRequestSent", targetName) >>
    /\ UNCHANGED <<sockets, ioRooms, users, voiceState, messageHistory, privateMessages,
                   friends, userProfiles, now, crashed, diskP, pendingH, diskH, issuedH>>

\* arr.push(x) without the includes test
PushAlways(arr, x) == Append(arr, x)

\* if (!arr.includes(x)) arr.push(x)
PushUnique(arr, x) == IF Includes(arr, x) THEN arr ELSE Append(arr, x)

\* lines 233-238: both friend lists are created if missing, then each gets
\* the other party unless it already holds it
AddFriendEdge(f, a, b) ==
    LET f1 == IF a \in DOMAIN f THEN f ELSE ObjSet(f, a, <<>>)
        f2 == IF b \in DOMAIN f1 THEN f1 ELSE ObjSet(f1, b, <<>>)
        f3 == [f2 EXCEPT ![a] = PushUnique(@, b)]
    IN  [f3 EXCEPT ![b] = PushUnique(@, a)]

\* friends[x].map(id => ({id, name: users[id].name, avatar: users[id].avatar,
\* online: true})); only evaluated when every id has a session
RECURSIVE AcceptList(_, _)
AcceptList(arr, u) ==
    IF arr = <<>> THEN <<>>
    ELSE <<[id |-> Head(arr), name |-> Entry(u, Head(arr)).name,
            avatar |-> Entry(u, Head(arr)).avatar, online |-> TRUE]>>
         \o AcceptList(Tail(arr), u)

\* users[id].name does not throw for any id of arr
AllHaveSession(arr, u) == \A i \in 1..Len(arr) : HasKey(u, arr[i])

\* the test without its includes(fromSocketId)
HasPendingList(fr, id, from) == id \in DOMAIN fr

\* friendRequests[socket.id] && friendRequests[socket.id].includes(fromSocketId)
HasPending(fr, id, from) == id \in DOMAIN fr /\ Includes(fr[id], from)

\* socket.on('acceptFriendRequest')
AcceptFriendRequest(id, from) ==
    /\ Running(id)
    /\ last' = "acceptFriendRequest"
    /\ IF ~HasPending(friendRequests, id, from)
       THEN /\ out' = <<>>
            /\ NoSaveP
            /\ UNCHANGED <<friendRequests, friends, crashed>>
       ELSE LET f1 == AddFriendEdge(friends, id, from)
                ok1 == HasKey(users, from)
                ok2 == ok1 /\ HasKey(users, id)
                ok3 == ok2 /\ AllHaveSession(f1[id], users)
                ok4 == ok3 /\ AllHaveSession(f1[from], users)
                e1 == IF ok1 THEN << ToSelf(id, "friendAccepted",
                                        [id |-> from, name |-> Entry(users, from).name,
                                         avatar |-> Entry(users, from).avatar]) >>
                      ELSE <<>>
                e2 == IF ok2 THEN << ToSocket(sockets, from, "friendAccepted",
                                        [id |-> id, name |-> Entry(users, id).name,
                                         avatar |-> Entry(users, id).avatar]) >>
                      ELSE <<>>
                e3 == IF ok3 THEN << ToSelf(id, "friendsUpdate", AcceptList(f1[id], users)) >>
                      ELSE <<>>
                e4 == IF ok4 THEN << ToSocket(sockets, from, "friendsUpdate",
                                        AcceptList(f1[from], users)) >>
                      ELSE <<>>
            IN  /\ friendRequests' = [friendRequests EXCEPT ![id] = Without(@, from)]
                /\ friends' = f1
                /\ savePersistentData(friends', friendRequests', notifications,
                                      privateMessages, userProfiles)
                /\ out' = e1 \o e2 \o e3 \o e4
                \* a TypeError (users[x] is undefined) is caught by nobody
                /\ crashed' = ~ok4
    /\ UNCHANGED <<sockets, ioRooms, users, voiceState, messageHistory, privateMessages,
                   notifications, userProfiles, now, diskP, pendingH, diskH, issuedH>>

\* socket.on('rejectFriendRequest')
RejectFriendRequest(id, from) ==
    /\ Running(id)
    /\ last' = "rejectFriendRequest"
    /\ IF id \in DOMAIN friendRequests
       THEN /\ friendRequests' = [friendRequests EXCEPT ![id] = Without(@, from)]
            /\ savePersistentData(friends, friendRequests', notifications,
                                  privateMessages, userProfiles)
       ELSE /\ NoSaveP
            /\ UNCHANGED friendRequests
    /\ out' = << ToSelf(id, "friendRequestRejected", from) >>
    /\ UNCHANGED <<sockets, ioRooms, users, voiceState, messageHistory, privateMessages,
                   friends, notifications, userProfiles, now, crashed,
                   diskP, pendingH, diskH, issuedH>>

\* the handlers that only read
ReadOnly ==
    UNCHANGED <<sockets, ioRooms, users, voiceState, messageHistory, privateMessages,
                friends, friendRequests, notifications, userProfiles, now, crashed,
                pendingP, diskP, pendingH, diskH, issuedP, issuedH>>

\* socket.on('getFriendsList')
GetFriendsList(id) ==
    /\ Running(id)
    /\ last' = "getFriendsList"
    /\ out' = << ToSelf(id, "friendsUpdate", MapIds(ArrOf(friends, id), users, userProfiles)) >>
    /\ ReadOnly

\* socket.on('getNotifications')
GetNotifications(id) ==
    /\ Running(id)
    /\ last' = "getNotifications"
    /\ out' = << ToSelf(id, "notificationsUpdate", ArrOf(notifications, id)) >>
    /\ ReadOnly

\* new Date().toLocaleTimeString([], {hour:'2-digit', minute:'2-digit'}): the
\* hour and minute of the day of a millisecond timestamp
TimeOfDay(t) == <<(t \div 3600000) % 24, (t \div 60000) % 60>>

\* the msg object of privateMessage
PrivateMsg(sender, targetId, text, t) ==
    [from |-> sender.id, to |-> targetId, user |-> sender.name, avatar |-> sender.avatar,
     text |-> text, file |-> "null", type |-> "private", time |-> TimeOfDay(t),
     timestamp |-> t]

\* privateMessages[a][b], or [] when either key is missing
Thread(pm, a, b) == IF a \in DOMAIN pm /\ b \in DOMAIN pm[a] THEN pm[a][b] ELSE <<>>

\* lines 321-322 / 323-324 followed by the push of 326 / 327
PushThread(pm, a, b, msg) ==
    LET pa == IF a \in DOMAIN pm THEN pm[a] ELSE EmptyObj
    IN  ObjSet(pm, a, ObjSet(pa, b, Append(Thread(pm, a, b), msg)))

\* the message stored in the sender's view only
StorePrivateSenderOnly(pm, a, b, msg) == PushThread(pm, a, b, msg)

\* lines 320-327: the message goes to the sender's view, then to the target's
StorePrivate(pm, a, b, msg) == PushThread(PushThread(pm, a, b, msg), b, a, msg)

\* !(friends[socket.id] || []).includes(targetId) is false
IsFriend(f, id, targetId) == Includes(ArrOf(f, id), targetId)

\* socket.on('privateMessage')
PrivateMessage(id, targetId, text) ==
    /\ Running(id)
    /\ last' = "privateMessage"
    /\ IF ~HasKey(users, id) \/ targetId = NoId \/ ~HasKey(users, targetId)
       THEN /\ out' = <<>>
            /\ NoSaveP
            /\ UNCHANGED privateMessages
       ELSE IF ~IsFriend(friends, id, targetId)
       THEN /\ out' = << ToSelf(id, "privateMessageError", "You can only message friends") >>
            /\ NoSaveP
            /\ UNCHANGED privateMessages
       ELSE LET msg == PrivateMsg(Entry(users, id), targetId, text, now)
            IN  /\ privateMessages' = StorePrivate(privateMessages, id, targetId, msg)
                /\ savePersistentData(friends, friendRequests, notifications,
                                      privateMessages', userProfiles)
                /\ out' = << ToSelf(id, "privateMessage", msg),
                             ToSocket(sockets, targetId, "privateMessage", msg) >>
    /\ UNCHANGED <<sockets, ioRooms, users, voiceState, messageHistory, friends,
                   friendRequests, notifications, userProfiles, now, crashed,
                   diskP, pendingH, diskH, issuedH>>

\* socket.on('getPrivateMessages')
GetPrivateMessages(id, targetId) ==
    /\ Running(id)
    /\ last' = "getPrivateMessages"
    /\ out' = IF ~IsFriend(friends, id, targetId)
              THEN << ToSelf(id, "privateMessageError",
                             "You can only view messages with friends") >>
              ELSE << ToSelf(id, "privateMessagesHistory",
                             [targetId |-> targetId,
                              messages |-> Thread(privateMessages, id, targetId)]) >>
    /\ ReadOnly

\* the msg object of chatMessage
ChatMsg(user, text, t) ==
    [user |-> user.name, avatar |-> user.avatar, text |-> text, file |-> "null",
     type |-> "user", time |-> TimeOfDay(t), timestamp |-> t]

\* messageHistory['global'].unshift(msg)
PushHistoryFront(h, msg) == <<msg>> \o h

\* messageHistory['global'].push(msg)
PushHistory(h, msg) == Append(h, msg)

\* socket.on('chatMessage')
ChatMessage(id, text) ==
    /\ Running(id)
    /\ last' = "chatMessage"
    /\ IF HasKey(users, id)
       THEN LET msg == ChatMsg(Entry(users, id), text, now)
            IN  /\ messageHistory' = PushHistory(messageHistory, msg)
                /\ saveHistory(messageHistory')
                /\ out' = << ToRoom(ioRooms, "global", "message", msg) >>
       ELSE /\ out' = <<>>
            /\ NoSaveH
            /\ UNCHANGED messageHistory
    /\ UNCHANGED <<sockets, ioRooms, users, voiceState, privateMessages, friends,
                   friendRequests, notifications, userProfiles, now, crashed,
                   pendingP, diskP, diskH, issuedP>>

\* peers.forEach(p => io.to(p).emit(ev, arg))
RECURSIVE EmitEach(_, _, _, _)
EmitEach(peers, s, ev, arg) ==
    IF peers = <<>> THEN <<>>
    ELSE << ToSocket(s, Head(peers), ev, arg) >> \o EmitEach(Tail(peers), s, ev, arg)

\* membership kept by pushing an entry per join
SetVoicePush(vs, id, roomId) == Append(vs, [id |-> id, room |-> roomId])

\* voiceState[socket.id] = roomId
SetVoice(vs, id, roomId) == PutEntry(vs, [id |-> id, room |-> roomId])

\* the filter without its id !== socket.id
PeersWithSelf(vs, oldRoom, id) == RoomKeys(vs, oldRoom)

\* Object.keys(voiceState).filter(id => voiceState[id] === oldRoom && id !== socket.id)
PeersExcept(vs, oldRoom, id) == Without(RoomKeys(vs, oldRoom), id)

\* socket.on('joinVoice')
JoinVoice(id, roomId) ==
    /\ Running(id)
    /\ last' = "joinVoice"
    /\ LET inOld == HasKey(voiceState, id)
           oldRoom == IF inOld THEN Entry(voiceState, id).room ELSE NoId
           oldPeers == IF inOld THEN PeersExcept(voiceState, oldRoom, id) ELSE <<>>
           left == IF inOld THEN [ioRooms EXCEPT ![oldRoom] = @ \ {id}] ELSE ioRooms
       IN  /\ voiceState' = SetVoice(voiceState, id, roomId)
           /\ ioRooms' = [left EXCEPT ![roomId] = @ \cup {id}]
           /\ out' = EmitEach(oldPeers, sockets, "userLeftVoice", id)
                     \o << ToAll(sockets, "voiceUpdate", getVoiceStateFull(voiceState', users)),
                           ToSelf(id, "voicePeers", PeersExcept(voiceState', roomId, id)) >>
    /\ UNCHANGED <<sockets, users, messageHistory, privateMessages, friends,
                   friendRequests, notifications, userProfiles, now, crashed,
                   pendingP, diskP, pendingH, diskH, issuedP, issuedH>>

\* socket.on('voiceSignal')
VoiceSignal(id, to) ==
    /\ Running(id)
    /\ last' = "voiceSignal"
    /\ out' = << ToSocket(sockets, to, "voiceSignal", [from |-> id, signal |-> "sdp"]) >>
    /\ ReadOnly

\* socket.on('leaveVoice')
LeaveVoice(id) ==
    /\ Running(id)
    /\ last' = "leaveVoice"
    /\ IF HasKey(voiceState, id)
       THEN LET room == Entry(voiceState, id).room
            IN  /\ voiceState' = DelEntry(voiceState, id)
                /\ ioRooms' = [ioRooms EXCEPT ![room] = @ \ {id}]
                /\ out' = EmitEach(RoomKeys(voiceState', room), sockets, "userLeftVoice", id)
                          \o << ToAll(sockets, "voiceUpdate",
                                      getVoiceStateFull(voiceState', users)) >>
       ELSE /\ out' = <<>>
            /\ UNCHANGED <<voiceState, ioRooms>>
    /\ UNCHANGED <<sockets, users, messageHistory, privateMessages, friends,
                   friendRequests, notifications, userProfiles, now, crashed,
                   pendingP, diskP, pendingH, diskH, issuedP, issuedH>>

\* socket.on('disconnect'): the transport has already taken the socket out of
\* every room when the handler runs
Disconnect(id) ==
    /\ Running(id)
    /\ last' = "disconnect"
    /\ sockets' = [sockets EXCEPT ![id] = "closed"]
    /\ ioRooms' = [r \in DOMAIN ioRooms |-> ioRooms[r] \ {id}]
    /\ voiceState' = DelEntry(voiceState, id)
    /\ users' = DelEntry(users, id)
    /\ out' = (IF HasKey(voiceState, id)
               THEN EmitEach(RoomKeys(voiceState', Entry(voiceState, id).room),
                             sockets', "userLeftVoice", id)
               ELSE <<>>)
              \o << ToAll(sockets', "voiceUpdate", getVoiceStateFull(voiceState', users')) >>
    /\ savePersistentData(friends, friendRequests, notifications, privateMessages,
                          userProfiles)
    /\ UNCHANGED <<messageHistory, privateMessages, friends, friendRequests,
                   notifications, userProfiles, now, crashed, diskP,
                   pendingH, diskH, issuedH>>

\* msg => msg.timestamp > sevenDaysAgo
Fresh(msg, sevenDaysAgo) == msg.timestamp > sevenDaysAgo

\* arr.filter(msg => msg.timestamp > sevenDaysAgo)
Sweep(arr, sevenDaysAgo) == SelectSeq(arr, LAMBDA m : Fresh(m, sevenDaysAgo))

\* lines 90-96 on every thread of every identity
SweepPrivate(pm, sevenDaysAgo) ==
    [a \in DOMAIN pm |-> [b \in DOMAIN pm[a] |-> Sweep(pm[a][b], sevenDaysAgo)]]

\* the number of stored private messages, both views counted
RECURSIVE CountThreads(_, _)
CountThreads(pm, pairs) ==
    IF pairs = {} THEN 0
    ELSE LET p == CHOOSE q \in pairs : TRUE
         IN  Len(pm[p[1]][p[2]]) + CountThreads(pm, pairs \ {p})

CountPrivate(pm) ==
    CountThreads(pm, {<<a, b>> \in Ids \X Ids : a \in DOMAIN pm /\ b \in DOMAIN pm[a]})

\* cleanupOldMessages(), run by setInterval every hour
CleanupOldMessages ==
    /\ ~crashed
    /\ last' = "cleanup"
    /\ out' = <<>>
    /\ LET sevenDaysAgo == now - SevenDays
           h1 == Sweep(messageHistory, sevenDaysAgo)
           pm1 == SweepPrivate(privateMessages, sevenDaysAgo)
           cleanedCount == (Len(messageHistory) - Len(h1))
                           + (CountPrivate(privateMessages) - CountPrivate(pm1))
       IN  /\ messageHistory' = h1
           /\ privateMessages' = pm1
           /\ IF cleanedCount > 0
              THEN /\ saveHistory(h1)
                   /\ savePersistentData(friends, friendRequests, notifications,
                                         pm1, userProfiles)
              ELSE NoSaveP /\ NoSaveH
    /\ UNCHANGED <<sockets, ioRooms, users, voiceState, friends, friendRequests,
                   notifications, userProfiles, now, crashed, diskP, diskH>>

\* time passes between two turns of the event loop
Tick ==
    /\ ~crashed
    /\ now' = now + ClockStep
    /\ UNCHANGED <<sockets, ioRooms, users, voiceState, messageHistory, privateMessages,
                   friends, friendRequests, notifications, userProfiles, crashed,
                   pendingP, diskP, pendingH, diskH, issuedP, issuedH, out, last>>

\* one fs.writeFile to persistent_data.json completes: the file holds its text
WritePersistentDone(doc) ==
    /\ ~crashed
    /\ doc \in pendingP
    /\ pendingP' = pendingP \ {doc}
    /\ diskP' = <<doc>>
    /\ UNCHANGED <<sockets, ioRooms, users, voiceState, messageHistory, privateMessages,
                   friends, friendRequests, notifications, userProfiles, now, crashed,
                   pendingH, diskH, issuedP, issuedH, out, last>>

\* one fs.writeFile to chat_data.json completes
WriteHistoryDone(doc) ==
    /\ ~crashed
    /\ doc \in pendingH
    /\ pendingH' = pendingH \ {doc}
    /\ diskH' = <<doc>>
    /\ UNCHANGED <<sockets, ioRooms, users, voiceState, messageHistory, privateMessages,
                   friends, friendRequests, notifications, userProfiles, now, crashed,
                   pendingP, diskP, issuedP, issuedH, out, last>>

\* the environment's bounds, as conditions on the state an event arrives in
ClockBelow(k) == now < k * ClockStep
NotesBelow(k) == CountNotes(notifications, DOMAIN notifications) < k
LogBelow(k) == Len(messageHistory) < k
ThreadsBelow(k) == \A a, b \in Ids : Len(Thread(privateMessages, a, b)) < k

\* every event, every connection, in any order: the whole program
Next ==
    \/ \E id \in Ids : Connect(id)
    \/ \E id \in Ids, avatar \in Avatars : Join(id, NameOf[id], avatar)
    \/ \E id \in Ids, name \in Names, avatar \in Avatars : UpdateProfile(id, name, avatar)
    \/ NotesBelow(MaxNotes) /\ \E id \in Ids, name \in Names : SendFriendRequest(id, name)
    \/ \E id \in Ids, from \in Ids : AcceptFriendRequest(id, from)
    \/ \E id \in Ids, from \in Ids : RejectFriendRequest(id, from)
    \/ \E id \in Ids : GetFriendsList(id)
    \/ \E id \in Ids : GetNotifications(id)
    \/ ThreadsBelow(MaxThread)
         /\ \E id \in Ids, t \in Ids \cup {NoId}, text \in Texts : PrivateMessage(id, t, text)
    \/ \E id \in Ids, t \in Ids : GetPrivateMessages(id, t)
    \/ LogBelow(MaxLog) /\ \E id \in Ids, text \in Texts : ChatMessage(id, text)
    \/ \E id \in Ids, r \in Rooms : JoinVoice(id, r)
    \/ \E id \in Ids, to \in Ids : VoiceSignal(id, to)
    \/ \E id \in Ids : LeaveVoice(id)
    \/ \E id \in Ids : Disconnect(id)
    \/ CleanupOldMessages
    \/ ClockBelow(MaxTicks) /\ Tick
    \/ \E doc \in pendingP : WritePersistentDone(doc)
    \/ \E doc \in pendingH : WriteHistoryDone(doc)

Spec == Init /\ [][Next]_vars

(* ------------------------------------------------------------------ *)
(* Specifications per component.  Each takes the handlers whole and    *)
(* keeps every handler that writes a variable the component reads.     *)
(* The in-memory components are explored with a disk that finishes a   *)
(* write before the next event is handled (Quiet): no handler reads    *)
(* the files or the writes in flight, so the in-memory behaviours are  *)
(* those of Spec.                                                      *)
(* ------------------------------------------------------------------ *)

Quiet == pendingP = {} /\ pendingH = {}

\* the two connections the private-thread component is explored with
Pair == {"s1", "s2"}

\* sessions, friend requests, friend edges and notification mailboxes
NextGraph ==
    \/ Quiet /\ \E id \in Ids : Connect(id)
    \/ Quiet /\ \E id \in Ids, avatar \in Avatars : Join(id, NameOf[id], avatar)
    \/ Quiet /\ NotesBelow(MaxNotes)
             /\ \E id \in Ids, name \in Names : SendFriendRequest(id, name)
    \/ Quiet /\ \E id \in Ids, from \in Ids : AcceptFriendRequest(id, from)
    \/ Quiet /\ \E id \in Ids, from \in Ids : RejectFriendRequest(id, from)
    \/ Quiet /\ \E id \in Ids : Disconnect(id)
    \/ \E doc \in pendingP : WritePersistentDone(doc)

SpecGraph == Init /\ [][NextGraph]_vars

\* the friend graph with the handlers that send a friend list
NextLists ==
    \/ Quiet /\ \E id \in Ids : Connect(id)
    \/ Quiet /\ \E id \in Ids, avatar \in Avatars : Join(id, NameOf[id], avatar)
    \/ Quiet /\ NotesBelow(MaxNotes)
             /\ \E id \in Ids, name \in Names : SendFriendRequest(id, name)
    \/ Quiet /\ \E id \in Ids, from \in Ids : AcceptFriendRequest(id, from)
    \/ Quiet /\ \E id \in Ids : GetFriendsList(id)
    \/ Quiet /\ \E id \in Ids : Disconnect(id)
    \/ \E doc \in pendingP : WritePersistentDone(doc)

SpecLists == Init /\ [][NextLists]_vars

\* two identities and every event that touches a session, a profile, a
\* pending request or a friend edge
NextEdges ==
    \/ Quiet /\ \E id \in Pair : Connect(id)
    \/ Quiet /\ \E id \in Pair, avatar \in Avatars : Join(id, NameOf[id], avatar)
    \/ Quiet /\ \E id \in Pair, name \in Names, avatar \in Avatars :
                    UpdateProfile(id, name, avatar)
    \/ Quiet /\ NotesBelow(MaxNotes)
             /\ \E id \in Pair, name \in Names : SendFriendRequest(id, name)
    \/ Quiet /\ \E id \in Pair, from \in Pair : AcceptFriendRequest(id, from)
    \/ Quiet /\ \E id \in Pair, from \in Pair : RejectFriendRequest(id, from)
    \/ Quiet /\ \E id \in Pair : Disconnect(id)
    \/ Quiet /\ CleanupOldMessages
    \/ \E doc \in pendingP : WritePersistentDone(doc)

SpecEdges == Init /\ [][NextEdges]_vars

\* sessions, friend edges, private threads and the retention sweep
NextThreads ==
    \/ Quiet /\ \E id \in Pair : Connect(id)
    \/ Quiet /\ \E id \in Pair, avatar \in Avatars : Join(id, NameOf[id], avatar)
    \/ Quiet /\ NotesBelow(MaxThreadNotes)
             /\ \E id \in Pair, name \in Names : SendFriendRequest(id, name)
    \/ Quiet /\ \E id \in Pair, from \in Pair : AcceptFriendRequest(id, from)
    \/ Quiet /\ ThreadsBelow(MaxThread)
             /\ \E id \in Pair, t \in Pair \cup {NoId}, text \in Texts :
                    PrivateMessage(id, t, text)
    \/ Quiet /\ \E id \in Pair : Disconnect(id)
    \/ Quiet /\ CleanupOldMessages
    \/ Quiet /\ ClockBelow(MaxTicks) /\ Tick
    \/ \E doc \in pendingP : WritePersistentDone(doc)
    \/ \E doc \in pendingH : WriteHistoryDone(doc)

SpecThreads == Init /\ [][NextThreads]_vars

\* sessions and voice rooms
NextVoice ==
    \/ Quiet /\ \E id \in Ids : Connect(id)
    \/ Quiet /\ \E id \in Ids, avatar \in Avatars : Join(id, NameOf[id], avatar)
    \/ Quiet /\ \E id \in Ids, r \in Rooms : JoinVoice(id, r)
    \/ Quiet /\ \E id \in Ids : LeaveVoice(id)
    \/ Quiet /\ \E id \in Ids : Disconnect(id)
    \/ \E doc \in pendingP : WritePersistentDone(doc)

SpecVoice == Init /\ [][NextVoice]_vars

\* sessions, the global channel log and the retention sweep
NextStore ==
    \/ Quiet /\ \E id \in Ids : Connect(id)
    \/ Quiet /\ \E id \in Ids, avatar \in Avatars : Join(id, NameOf[id], avatar)
    \/ Quiet /\ LogBelow(MaxLog) /\ \E id \in Ids, text \in Texts : ChatMessage(id, text)
    \/ Quiet /\ \E id \in Ids : Disconnect(id)
    \/ Quiet /\ CleanupOldMessages
    \/ Quiet /\ ClockBelow(MaxTicks) /\ Tick
    \/ \E doc \in pendingP : WritePersistentDone(doc)
    \/ \E doc \in pendingH : WriteHistoryDone(doc)

SpecStore == Init /\ [][NextStore]_vars

\* at most k writes to either file are in flight
InFlightBelow(k) == Cardinality(pendingP) < k /\ Cardinality(pendingH) < k

\* the write path: events that save, and writes that complete at any later
\* time, in any order, while further events are handled
NextPersist ==
    \/ \E id \in Pair : Connect(id)
    \/ \E id \in Pair, avatar \in Avatars : Join(id, NameOf[id], avatar)
    \/ InFlightBelow(MaxInFlight) /\ LogBelow(MaxLog)
          /\ \E id \in Pair, text \in Texts : ChatMessage(id, text)
    \/ InFlightBelow(MaxInFlight) /\ \E id \in Pair : Disconnect(id)
    \/ \E doc \in pendingP : WritePersistentDone(doc)
    \/ \E doc \in pendingH : WriteHistoryDone(doc)

SpecPersist == Init /\ [][NextPersist]_vars

(* ------------------------------------------------------------------ *)
(* What the claims read.                                               *)
(* ------------------------------------------------------------------ *)

\* identity a has a live session
Joined(a) == HasKey(users, a)

\* a friend edge between a and b, read from either list
Edge(f, a, b) == Includes(ArrOf(f, a), b) \/ Includes(ArrOf(f, b), a)

\* a request from b is pending with a
Pending(fr, a, b) == a \in DOMAIN fr /\ Includes(fr[a], b)

\* how many times connection p was sent event ev with payload arg
Received(o, p, ev, arg) ==
    Cardinality({i \in 1..Len(o) : o[i].ev = ev /\ o[i].arg = arg /\ p \in o[i].to})

\* the connections in voice room r
Members(vs, r) == {vs[i].id : i \in {j \in 1..Len(vs) : vs[j].room = r}}

\* every private thread other than the two views of a-b is untouched
OtherThreadsSame(a, b) ==
    \A x, y \in Ids :
        ({x, y} # {a, b}) => Thread(privateMessages', x, y) = Thread(privateMessages, x, y)

\* the privateMessage call of a to b succeeded: one message from a to b is
\* appended to both views and emitted to a and to b
Delivered(a, b, text) ==
    /\ Len(out') = 2
    /\ out'[1].ev = "privateMessage" /\ out'[1].to = {a}
    /\ out'[2].ev = "privateMessage" /\ out'[2].to = {b}
    /\ out'[1].arg = out'[2].arg
    /\ out'[1].arg.from = a /\ out'[1].arg.to = b /\ out'[1].arg.text = text
    /\ out'[1].arg.timestamp = now
    /\ IF a = b
       THEN Thread(privateMessages', a, b)
                = Append(Append(Thread(privateMessages, a, b), out'[1].arg), out'[1].arg)
       ELSE /\ Thread(privateMessages', a, b)
                  = Append(Thread(privateMessages, a, b), out'[1].arg)
            /\ Thread(privateMessages', b, a)
                  = Append(Thread(privateMessages, b, a), out'[1].arg)
    /\ OtherThreadsSame(a, b)

\* the call failed with NotFriends: one error event, to a only, no log changed
Refused(a) ==
    /\ Len(out') = 1
    /\ out'[1].ev = "privateMessageError" /\ out'[1].to = {a}
    /\ privateMessages' = privateMessages

(* ------------------------------------------------------------------ *)
(* C1                                                                  *)
(* ------------------------------------------------------------------ *)

\* C1, as stated: for a joined sender A and every target identity B, a
\* privateMessage succeeds iff a friend edge A-B exists at the call, and
\* otherwise fails with privateMessageError to A with no log changed.
C1_GateForEveryTarget ==
    [][\A a \in Ids, b \in Ids, text \in Texts :
          (PrivateMessage(a, b, text) /\ Joined(a)) =>
              IF Edge(friends, a, b) THEN Delivered(a, b, text) ELSE Refused(a)]_vars

(* ------------------------------------------------------------------ *)
(* C2                                                                  *)
(* ------------------------------------------------------------------ *)

\* C2: no handler raises an uncaught error, in any reachable state.
C2_NoHandlerThrows == ~crashed

(* ------------------------------------------------------------------ *)
(* C3                                                                  *)
(* ------------------------------------------------------------------ *)

C4_FriendsSymmetric ==
    /\ \A a, b \in Ids : Includes(ArrOf(friends, a), b) <=> Includes(ArrOf(friends, b), a)
    /\ \A a \in DOMAIN friends :
          \A i, j \in 1..Len(friends[a]) : (friends[a][i] = friends[a][j]) => i = j

\* C4 witness: an identity with two friends, after an accept
C4_TwoFriends ==
    /\ last = "acceptFriendRequest"
    /\ \E a \in DOMAIN friends : Len(friends[a]) = 2

(* ------------------------------------------------------------------ *)
(* C5                                                                  *)
(* ------------------------------------------------------------------ *)

\* C5: a friend edge A-B appears only in an acceptFriendRequest run by one of
\* the two while a request from the other is pending with it; an edge that
\* exists stays in every later state; and an acceptFriendRequest with no
\* matching pending request changes no state and emits nothing.
C5_EdgeLifecycle ==
    [][/\ \A a, b \in Ids :
             /\ Edge(friends, a, b) => Edge(friends', a, b)
             /\ (~Edge(friends, a, b) /\ Edge(friends', a, b)) =>
                    \/ AcceptFriendRequest(a, b) /\ Pending(friendRequests, a, b)
                    \/ AcceptFriendRequest(b, a) /\ Pending(friendRequests, b, a)
       /\ \A id, from \in Ids :
             (AcceptFriendRequest(id, from) /\ ~Pending(friendRequests, id, from)) =>
                 /\ out' = <<>>
                 /\ UNCHANGED <<sockets, ioRooms, users, voiceState, messageHistory,
                                privateMessages, friends, friendRequests, notifications,
                                userProfiles, now, crashed, pendingP, diskP, pendingH,
                                diskH, issuedP, issuedH>>]_vars

\* C5 witness: a request was rejected while the friend edge of the same two
\* identities stays
C5_RejectKeepsEdge ==
    /\ last = "rejectFriendRequest"
    /\ \E a, b \in Ids :
          /\ out[1].to = {a} /\ out[1].arg = b
          /\ Edge(friends, a, b)
          /\ a \in DOMAIN friendRequests /\ ~Includes(friendRequests[a], b)
          /\ \E i \in 1..Len(ArrOf(notifications, a)) : notifications[a][i].from = b

(* ------------------------------------------------------------------ *)
(* C6                                                                  *)
(* ------------------------------------------------------------------ *)

\* the voice room connection c is in
RoomOf(vs, c) == Entry(vs, c).room

\* C6: when a connection c in voice room R1 calls joinVoice(R2), R2 other
\* than R1, then afterwards c is out of R1 and in R2, every other member of R1
\* has received exactly one userLeftVoice naming c, nobody else has received
\* one, and c has received a voicePeers list that holds exactly the other
\* connections now in R2.
C6_SwitchRoom ==
    [][\A c \in Ids, r2 \in Rooms :
          (JoinVoice(c, r2) /\ HasKey(voiceState, c) /\ RoomOf(voiceState, c) # r2) =>
              LET r1 == RoomOf(voiceState, c)
              IN  /\ c \notin Members(voiceState', r1)
                  /\ c \in Members(voiceState', r2)
                  /\ \A p \in Ids :
                         Received(out', p, "userLeftVoice", c)
                             = IF p \in Members(voiceState, r1) \ {c} THEN 1 ELSE 0
                  /\ Cardinality({i \in 1..Len(out') :
                                     /\ out'[i].ev = "voicePeers"
                                     /\ out'[i].to = {c}
                                     /\ Elems(out'[i].arg) = Members(voiceState', r2) \ {c}
                                     /\ Len(out'[i].arg)
                                            = Cardinality(Members(voiceState', r2) \ {c})}) = 1
                  /\ \A p \in Ids \ {c} : \A i \in 1..Len(out') :
                         out'[i].ev = "voicePeers" => p \notin out'[i].to]_vars

\* C6 witness: a connection has moved from a room with another member into a
\* room with another member
C6_Switched ==
    /\ last = "joinVoice"
    /\ \E c, p, q \in Ids :
          /\ p # c /\ q # c
          /\ Received(out, p, "userLeftVoice", c) = 1
          /\ HasKey(voiceState, p) /\ HasKey(voiceState, c) /\ HasKey(voiceState, q)
          /\ RoomOf(voiceState, p) # RoomOf(voiceState, c)
          /\ RoomOf(voiceState, q) = RoomOf(voiceState, c)
          /\ out[Len(out)].ev = "voicePeers" /\ out[Len(out)].arg = <<q>>

(* ------------------------------------------------------------------ *)
(* C7                                                                  *)
(* ------------------------------------------------------------------ *)

\* no connection is recorded twice in voiceState
OneRoomEach ==
    \A i, j \in 1..Len(voiceState) : voiceState[i].id = voiceState[j].id => i = j

\* the number of voiceState entries of room r
RoomSize(vs, r) == Cardinality({i \in 1..Len(vs) : vs[i].room = r})

\* joinVoice(R) by a connection already in R leaves every room as it was
RejoinKeepsRooms ==
    \A c \in Ids, r \in Rooms :
          (JoinVoice(c, r) /\ HasKey(voiceState, c) /\ RoomOf(voiceState, c) = r) =>
              \A q \in Rooms :
                  /\ Members(voiceState', q) = Members(voiceState, q)
                  /\ RoomSize(voiceState', q) = RoomSize(voiceState, q)
                  /\ RoomKeys(voiceState', q) = RoomKeys(voiceState, q)

\* C7: in every reachable state no connection is recorded twice in
\* voiceState, so a room's membership is a set and a connection is in at most
\* one room; and joinVoice(R) by a connection that is already in R leaves the
\* membership of every room, and its size, unchanged.
C7_VoiceMembership == []OneRoomEach /\ [][RejoinKeepsRooms]_vars

\* C7 witness: a connection has joined again the room it shares with a peer
C7_Rejoined ==
    /\ last = "joinVoice"
    /\ \E c, p \in Ids :
          /\ p # c
          /\ Received(out, p, "userLeftVoice", c) = 1
          /\ HasKey(voiceState, p) /\ HasKey(voiceState, c)
          /\ RoomOf(voiceState, p) = RoomOf(voiceState, c)

(* ------------------------------------------------------------------ *)
(* C8                                                                  *)
(* ------------------------------------------------------------------ *)

\* the messages of a log that are no older than the window at time t
WithinWindow(h, t) == SelectSeq(h, LAMBDA m : t - m.timestamp <= SevenDays)

\* C8: right after a retention sweep every message left in the channel log
\* satisfies now - timestamp <= W; the sweep removes only messages older
\* than W, so every message of age W or less is still there; and a sweep run
\* again at the same clock value leaves the log as it is and issues no save.
C8_SweepKeepsWindow ==
    [][CleanupOldMessages =>
          /\ \A i \in 1..Len(messageHistory') :
                 now - messageHistory'[i].timestamp <= SevenDays
          /\ messageHistory' = WithinWindow(messageHistory, now)
          /\ last = "cleanup" =>
                 /\ messageHistory' = messageHistory
                 /\ pendingH' = pendingH /\ pendingP' = pendingP]_vars

(* ------------------------------------------------------------------ *)
(* C9                                                                  *)
(* ------------------------------------------------------------------ *)

\* a is b with some elements left out, the rest in b's order
RECURSIVE IsSubSeq(_, _)
IsSubSeq(a, b) ==
    IF a = <<>> THEN TRUE
    ELSE IF b = <<>> THEN FALSE
    ELSE IF Head(a) = Head(b) THEN IsSubSeq(Tail(a), Tail(b))
    ELSE IsSubSeq(a, Tail(b))

\* the log's timestamps never decrease from one entry to the next
TimeOrdered(h) == \A i, j \in 1..Len(h) : i < j => h[i].timestamp <= h[j].timestamp

\* what one step may do to the channel log
LogStep ==
    /\ \/ messageHistory' = messageHistory
       \/ \E id \in Ids, text \in Texts :
             /\ ChatMessage(id, text) /\ Joined(id)
             /\ Len(messageHistory') = Len(messageHistory) + 1
             /\ SubSeq(messageHistory', 1, Len(messageHistory)) = messageHistory
             /\ messageHistory'[Len(messageHistory')].timestamp = now
             /\ messageHistory'[Len(messageHistory')].text = text
       \/ CleanupOldMessages /\ IsSubSeq(messageHistory', messageHistory)
    /\ \A id \in Ids, text \in Texts :
          (ChatMessage(id, text) /\ ~Joined(id)) =>
              messageHistory' = messageHistory /\ out' = <<>>
    /\ \A id \in Ids, avatar \in Avatars :
          Join(id, NameOf[id], avatar) =>
              /\ out'[1].ev = "loadHistory" /\ out'[1].to = {id}
              /\ out'[1].arg = messageHistory

\* C9: over chatMessage calls of joined connections and retention sweeps,
\* the channel log, which join hands out as loadHistory, holds the surviving
\* messages in insertion order with non-decreasing timestamps; a chatMessage
\* of a connection that has not joined leaves the log unchanged and
\* broadcasts nothing.
C9_LogInInsertionOrder == []TimeOrdered(messageHistory) /\ [][LogStep]_vars

\* C9 witness: a joining connection is handed a log of two messages posted
\* at different times
C9_HistoryReplayed ==
    /\ last = "join"
    /\ out[1].ev = "loadHistory"
    /\ Len(out[1].arg) = 2
    /\ out[1].arg[1].timestamp < out[1].arg[2].timestamp
    /\ out[1].arg = messageHistory

(* ------------------------------------------------------------------ *)
(* C10                                                                 *)
(* ------------------------------------------------------------------ *)

\* C10: once no write to a file is in flight, the file holds the snapshot of
\* the save issued last for it, whatever the order the writes completed in.
C10_LastWriterWins ==
    /\ (pendingH = {} /\ issuedH # <<>>) => diskH = issuedH
    /\ (pendingP = {} /\ issuedP # <<>>) => diskP = issuedP

(* ------------------------------------------------------------------ *)
(* C11                                                                 *)
(* ------------------------------------------------------------------ *)

\* the state persistent_data.json holds
Durable == <<friends, friendRequests, notifications, privateMessages, userProfiles>>

\* C11: a step that changes identity profiles, friend edges, pending
\* requests, mailboxes or private threads issues, in that step, a save of the
\* persistent document as it is after the change; a step that changes the
\* channel log issues a save of the log as it is after the change; and the
\* retention sweep issues saves if and only if it removed a message.
C11_SavedInSameTurn ==
    [][/\ Durable' # Durable =>
              /\ issuedP' = << PersistentDoc(friends', friendRequests', notifications',
                                             privateMessages', userProfiles', now) >>
              /\ issuedP'[1] \in pendingP'
       /\ messageHistory' # messageHistory =>
              /\ issuedH' = << HistoryDoc(messageHistory') >>
              /\ issuedH'[1] \in pendingH'
       /\ CleanupOldMessages =>
              ((messageHistory' # messageHistory \/ privateMessages' # privateMessages)
                   <=> (pendingH' # pendingH /\ pendingP' # pendingP))]_vars

(* ------------------------------------------------------------------ *)
(* C12                                                                 *)
(* ------------------------------------------------------------------ *)

\* C12: on join the joining connection receives loadHistory with the
\* current channel log, then a system message welcoming it by its display
\* name, and every connection already in the default channel receives a
\* system message announcing the newcomer.
C12_JoinAnnounced ==
    [][\A id \in Ids, avatar \in Avatars :
          Join(id, NameOf[id], avatar) =>
              /\ out'[1].ev = "loadHistory" /\ out'[1].to = {id}
              /\ out'[1].arg = messageHistory
              /\ out'[2].ev = "message" /\ out'[2].to = {id}
              /\ out'[2].arg.type = "system"
              /\ out'[2].arg.welcome = Entry(users', id).name
              /\ \A p \in ioRooms["global"] \ {id} :
                     \E i \in 1..Len(out') :
                         /\ out'[i].ev = "message"
                         /\ out'[i].arg.type = "system"
                         /\ p \in out'[i].to]_vars

(* ------------------------------------------------------------------ *)
(* C13                                                                 *)
(* ------------------------------------------------------------------ *)

\* connection p has received event ev carrying a record about identity x
GotAbout(o, p, ev, x) ==
    \E i \in 1..Len(o) : o[i].ev = ev /\ p \in o[i].to /\ o[i].arg.id = x

\* connection p has received a friendsUpdate whose list has an entry for x
GotListWith(o, p, x) ==
    \E i \in 1..Len(o) :
        /\ o[i].ev = "friendsUpdate" /\ p \in o[i].to
        /\ \E k \in 1..Len(o[i].arg) : o[i].arg[k].id = x

\* C13: when B accepts a pending request from A, in any reachable state
\* where it is pending, the request leaves B's pending list and A and B each
\* receive a friendAccepted naming the other and a friendsUpdate listing the
\* other, whether or not A or any other friend of the two is connected.
C13_AcceptNotifiesBoth ==
    [][\A b \in Ids, a \in Ids :
          (AcceptFriendRequest(b, a) /\ Pending(friendRequests, b, a)) =>
              /\ ~Pending(friendRequests', b, a)
              /\ GotAbout(out', b, "friendAccepted", a)
              /\ GotAbout(out', a, "friendAccepted", b)
              /\ GotListWith(out', b, a)
              /\ GotListWith(out', a, b)]_vars

(* ------------------------------------------------------------------ *)
(* C14                                                                 *)
(* ------------------------------------------------------------------ *)

\* the events of o that connection p receives, in order
SeenBy(o, p) == SelectSeq(o, LAMBDA e : p \in e.to)

\* C14: for a joined sender A with no friend edge to the target id, what A
\* observes after privateMessage does not depend on whether the target id is
\* a connected session: in both runs A receives the one privateMessageError
\* it receives for a connected target, and that event goes to A only.
C14_NotFriendsHidesTarget ==
    [][\A a \in Ids, b \in Ids, text \in Texts :
          (PrivateMessage(a, b, text) /\ Joined(a) /\ ~Edge(friends, a, b)) =>
              /\ Len(SeenBy(out', a)) = 1
              /\ SeenBy(out', a)[1].ev = "privateMessageError"
              /\ \A i \in 1..Len(out') :
                     out'[i].ev = "privateMessageError" => out'[i].to = {a}]_vars

(* ------------------------------------------------------------------ *)
(* C15                                                                 *)
(* ------------------------------------------------------------------ *)

\* the number of events ev in o, and the number of them p receives
Emitted(o, ev) == Cardinality({i \in 1..Len(o) : o[i].ev = ev})
Got(o, p, ev) == Cardinality({i \in 1..Len(o) : o[i].ev = ev /\ p \in o[i].to})

\* sendFriendRequest(name) by the joined requester id, name resolving to t
RequestOutcome(id, t) ==
    IF t = NoId \/ t = id \/ Pending(friendRequests, t, id)
    THEN /\ Len(out') = 1
         /\ out'[1].ev = "friendRequestError" /\ out'[1].to = {id}
         /\ friendRequests' = friendRequests
         /\ notifications' = notifications
    ELSE /\ ArrOf(friendRequests', t) = Append(ArrOf(friendRequests, t), id)
         /\ \A k \in Ids \ {t} :
                /\ ArrOf(friendRequests', k) = ArrOf(friendRequests, k)
                /\ ArrOf(notifications', k) = ArrOf(notifications, k)
         /\ Len(ArrOf(notifications', t)) = Len(ArrOf(notifications, t)) + 1
         /\ SubSeq(notifications'[t], 1, Len(ArrOf(notifications, t)))
                = ArrOf(notifications, t)
         /\ notifications'[t][Len(notifications'[t])].from = id
         /\ notifications'[t][Len(notifications'[t])].type = "friend_request"
         /\ Emitted(out', "notification") = 1
         /\ Got(out', t, "notification") = 1
         /\ \A p \in Ids \ {t} : Got(out', p, "notification") = 0
         /\ Emitted(out', "friendRequestError") = 0

\* no pending list holds the same requester twice
PendingUnique ==
    \A t \in DOMAIN friendRequests :
        \A i, j \in 1..Len(friendRequests[t]) :
            friendRequests[t][i] = friendRequests[t][j] => i = j

ListedIn(snap, r) ==
    UNION {{snap[i].members[k].id : k \in 1..Len(snap[i].members)} :
              i \in {j \in 1..Len(snap) : snap[j].room = r}}

\* a snapshot lists, under every room, exactly the connections now in that
\* room and shows no room without members
SnapshotExact(snap) ==
    /\ \A r \in Rooms : ListedIn(snap, r) = Members(voiceState, r)
    /\ \A i \in 1..Len(snap) : snap[i].members # <<>>

\* C16: every voiceUpdate snapshot lists under each room exactly the
\* connections whose current voice room it is, the set voicePeers and
\* userLeftVoice are computed from, with no empty room; and a voiceUpdate is
\* broadcast in every step that changes voice membership.
C16_SnapshotIsMembership ==
    /\ [](\A i \in 1..Len(out) : out[i].ev = "voiceUpdate" => SnapshotExact(out[i].arg))
    /\ [][voiceState' # voiceState =>
             \E i \in 1..Len(out') :
                 out'[i].ev = "voiceUpdate" /\ out'[i].to = Open(sockets')]_vars

(* ------------------------------------------------------------------ *)
(* C17                                                                 *)
(* ------------------------------------------------------------------ *)

\* a voiceUpdate goes out to every connected socket
VoiceUpdateBroadcast ==
    \E i \in 1..Len(out') : out'[i].ev = "voiceUpdate" /\ out'[i].to = Open(sockets')

\* leaveVoice or disconnect of a connection that is in a voice room
LeftRoom ==
    \A c \in Ids :
        ((LeaveVoice(c) \/ Disconnect(c)) /\ HasKey(voiceState, c)) =>
            /\ \A r \in Rooms : c \notin Members(voiceState', r)
            /\ ~HasKey(voiceState', c)
            /\ \A p \in Members(voiceState', RoomOf(voiceState, c)) :
                   Received(out', p, "userLeftVoice", c) = 1
            /\ VoiceUpdateBroadcast

\* disconnect drops the session and issues a save of the persistent document
SessionRemoved ==
    \A c \in Ids :
        Disconnect(c) =>
            /\ ~HasKey(users', c)
            /\ issuedP' = << PersistentDoc(friends, friendRequests, notifications,
                                           privateMessages, userProfiles, now) >>
            /\ issuedP'[1] \in pendingP'
            /\ VoiceUpdateBroadcast

\* every voice-room member and every session key is a connected socket
OnlyConnected ==
    /\ \A i \in 1..Len(voiceState) : sockets[voiceState[i].id] = "open"
    /\ \A i \in 1..Len(users) : sockets[users[i].id] = "open"

\* C17: after leaveVoice or disconnect of a connection c that was in room R,
\* c is in no voice room, every connection still in R has received exactly
\* one userLeftVoice naming c and a voiceUpdate is broadcast; after disconnect
\* c has no session entry and a save has been issued; in every reachable
\* state every voice-room member and every session key is connected.
C17_LeaveCleansUp == []OnlyConnected /\ [][LeftRoom /\ SessionRemoved]_vars

\* C17 witness: a connection in a room with a peer has disconnected
C17_PeerToldOfDisconnect ==
    /\ last = "disconnect"
    /\ pendingP # {}
    /\ \E c, p \in Ids :
          /\ sockets[c] = "closed" /\ ~HasKey(users, c) /\ ~HasKey(voiceState, c)
          /\ HasKey(voiceState, p)
          /\ Received(out, p, "userLeftVoice", c) = 1

(* ------------------------------------------------------------------ *)
(* C18                                                                 *)
(* ------------------------------------------------------------------ *)

\* a friend list sent to connection r: its entries are r's friends, in
\* order, and each online flag tells whether that friend has a session
ListTrue(list, r) ==
    /\ KeysOf(list) = ArrOf(friends, r)
    /\ \A k \in 1..Len(list) : list[k].online = HasKey(users, list[k].id)

\* C18: in every friendsUpdate event any handler emits, the entries are
\* exactly the recipient's current friend edges and each entry's online flag
\* equals whether a live session maps to that friend at emission.
C18_OnlineFlagTrue ==
    \A i \in 1..Len(out) :
        out[i].ev = "friendsUpdate" => \A r \in out[i].to : ListTrue(out[i].arg, r)

\* C18 witness: a friend list with a friend that has no session
C18_OfflineFriendListed ==
    \E i \in 1..Len(out) :
        /\ out[i].ev = "friendsUpdate" /\ out[i].to # {}
        /\ \E k \in 1..Len(out[i].arg) : ~out[i].arg[k].online

(* ------------------------------------------------------------------ *)
(* C19                                                                 *)
(* ------------------------------------------------------------------ *)

\* connections a and b are in the same voice room
SameRoom(vs, a, b) == HasKey(vs, a) /\ HasKey(vs, b) /\ RoomOf(vs, a) = RoomOf(vs, b)

\* a step in which no handler runs: a write completes or the clock advances,
\* and out still holds what the last handler emitted
NoHandler ==
    \/ \E doc \in pendingP : WritePersistentDone(doc)
    \/ \E doc \in pendingH : WriteHistoryDone(doc)
    \/ Tick

\* C19, as stated: a userLeftVoice naming c reaches p only if c was in p's voice room
\* before the handler and is not in it afterwards; it never reaches c itself;
\* and none is emitted by a handler that leaves c's membership as it was,
\* such as joinVoice for the room c is already in.
C19_LeftMeansLeft ==
    [][\A i \in 1..Len(out') :
          (~NoHandler /\ out'[i].ev = "userLeftVoice") =>
              LET c == out'[i].arg
              IN  /\ \A p \in out'[i].to :
                         /\ p # c
                         /\ SameRoom(voiceState, c, p)
                         /\ ~SameRoom(voiceState', c, p)
                  /\ ~(/\ HasKey(voiceState, c) /\ HasKey(voiceState', c)
                       /\ RoomOf(voiceState', c) = RoomOf(voiceState, c))]_vars

\* C19, amended: a userLeftVoice naming c reaches p only if c was in p's
\* voice room before the handler, and never reaches c itself; afterwards c is
\* no longer in p's room, unless the handler is a joinVoice by c for the room
\* it is already in, which sends it to every other member of that room while
\* c's membership stays as it was.
C19_LeftOrRejoined ==
    [][/\ \A i \in 1..Len(out') :
             (~NoHandler /\ out'[i].ev = "userLeftVoice") =>
                 LET c == out'[i].arg
                 IN  \A p \in out'[i].to :
                         /\ p # c
                         /\ SameRoom(voiceState, c, p)
                         /\ SameRoom(voiceState', c, p) =>
                                /\ JoinVoice(c, RoomOf(voiceState, c))
                                /\ voiceState' = voiceState
       /\ \A c \in Ids :
             (HasKey(voiceState, c) /\ JoinVoice(c, RoomOf(voiceState, c))) =>
                 \A p \in Ids :
                     Received(out', p, "userLeftVoice", c)
                         = IF p # c /\ SameRoom(voiceState, c, p) THEN 1 ELSE 0]_vars

\* C19 witness: a connection has left its room by leaveVoice and the peer
\* that stays has been told
C19_PeerToldOfLeave ==
    /\ last = "leaveVoice"
    /\ \E c, p \in Ids :
          /\ Received(out, p, "userLeftVoice", c) = 1
          /\ ~HasKey(voiceState, c) /\ HasKey(voiceState, p)

(* ------------------------------------------------------------------ *)
(* C20                                                                 *)
(* ------------------------------------------------------------------ *)

\* C20, as stated: in every reachable state no identity has a pending request from an
\* identity that is already its friend, and no identity is its own friend or
\* has a pending request from itself.
C20_PendingApartFromFriends ==
    \A a, b \in Ids :
        /\ ~(Pending(friendRequests, a, b) /\ Edge(friends, a, b))
        /\ ~Edge(friends, a, a)
        /\ ~Pending(friendRequests, a, a)

\* C20, amended: in every reachable state no identity is its own friend and
\* no identity has a pending request from itself.
C20_NoSelfEdgeOrRequest ==
    \A a \in Ids :
        /\ ~Includes(ArrOf(friends, a), a)
        /\ ~Includes(ArrOf(friendRequests, a), a)

\* C20 witness: a request to the requester's own name was refused, with a
\* friend edge in place
C20_SelfRequestRefused ==
    /\ last = "sendFriendRequest"
    /\ Len(out) = 1
    /\ out[1].arg = "User not found or cannot add yourself"
    /\ \A n \in Names : FindByName(users, n) # NoId
    /\ \E a, b \in Ids : Edge(friends, a, b)

====
